---- MODULE Spec2Model ----
(***************************************************************************)
(* CodeForgeX: the Context Set (ContextProvider), the External Command     *)
(* Gateway (CodeForgeService._executeCommand) and the Edit Reconciliation  *)
(* Pipeline (CodeForgeService.processEdit), the Mode State Machine         *)
(* (ModeManager) and the conversation layer (ChatProvider).                *)
(*                                                                         *)
(* Strings are sequences of symbols.  A symbol is one character ("a", "/") *)
(* or one fixed piece of text that the code only ever handles whole (the   *)
(* sentinel suffix ".codeforgedit", a message prefix).  Paths are strings, *)
(* so endsWith, replace, join, dirname and basename work on them as the    *)
(* JavaScript originals do.                                                *)
(***************************************************************************)
EXTENDS Integers, Sequences, FiniteSets, TLC

VARIABLES
    contextFiles,   \* ContextProvider._contextFiles
    nextSeq,        \* history: number of entries ever pushed
    pendingAdds,    \* addFile calls suspended at `await openTextDocument`
    docs,           \* the host's live documents: uri -> full text
    notices,        \* host messages shown by the last step
    fired,          \* change notifications fired by the last step
    lastCall,       \* history: the operation the last step belongs to
    fs,             \* the file system below os.tmpdir(): path -> node
    now,            \* the last reading of Date.now()
    inv,            \* the processEdit invocations: locals, position, history
    mode,           \* ModeManager._currentMode
    modeEvents,     \* onModeChanged events fired by the last step
    modeCall,       \* the ModeManager call the last step made, with setMode's argument
    trail,          \* history: the modes left by the latest ModeManager calls
    messages,       \* ChatProvider._messages
    req,            \* the _handleUserMessage invocations: locals, position, history
    isWaitingForResponse,   \* the chat panel's flag of the same name
    toHost,         \* messages the chat panel has posted, not yet received by the host
    toWebview       \* 'updateMessages' posts of the host the chat panel has yet to handle

ctxVars == <<contextFiles, nextSeq, pendingAdds>>
editVars == <<fs, now, inv>>
vars == <<contextFiles, nextSeq, pendingAdds, docs, notices, fired, lastCall,
          fs, now, inv, mode, modeEvents, modeCall, trail, messages, req,
          isWaitingForResponse, toHost, toWebview>>
webVars == <<isWaitingForResponse, toHost, toWebview>>

NoModeCall == [op |-> "none", arg |-> "none"]

\* A step that is no ModeManager call: no event, the mode stays.
ModeIdle ==
    /\ modeEvents' = << >>
    /\ modeCall' = NoModeCall
    /\ UNCHANGED <<mode, trail>>

\* A step outside ModeManager and ChatProvider.
ChatIdle ==
    /\ ModeIdle
    /\ UNCHANGED <<messages, req, webVars>>

----------------------------------------------------------------------------
\* Bounds

MaxAdds == 3        \* entries pushed in one behaviour
MaxPending == 2     \* addFile calls in flight at once
MaxCtx == 2         \* files in the Context Set an Edit invocation starts from
MaxClock == 2       \* readings of Date.now()
MaxPosts == 2       \* posts of the chat panel and of the host in flight when the user clears
MaxTrail == 4       \* ModeManager calls the trail remembers, the start included

----------------------------------------------------------------------------
\* Strings and paths

SLASH == "/"
SENTINEL == ".codeforgedit"

Range(s) == {s[i] : i \in DOMAIN s}

\* String.prototype.endsWith
EndsWith(s, t) ==
    /\ Len(t) <= Len(s)
    /\ SubSeq(s, Len(s) - Len(t) + 1, Len(s)) = t

\* String.prototype.startsWith
StartsWith(s, t) ==
    /\ Len(t) <= Len(s)
    /\ SubSeq(s, 1, Len(t)) = t

\* index of the last "/" of p, 0 when there is none
LastSlash(p) ==
    LET at == {i \in DOMAIN p : p[i] = SLASH}
    IN  IF at = {} THEN 0 ELSE CHOOSE i \in at : \A j \in at : j <= i

\* path.basename
basename(p) == SubSeq(p, LastSlash(p) + 1, Len(p))

\* path.dirname
dirname(p) == IF LastSlash(p) = 0 THEN <<".">> ELSE SubSeq(p, 1, LastSlash(p) - 1)

\* path.join of an absolute directory and a relative path without "." or ".."
pathJoin(dir, rel) == dir \o <<SLASH>> \o rel

\* path.relative(from, to) for a file `to` below the directory `from`
pathRelative(from, to) == SubSeq(to, Len(from) + 2, Len(to))

----------------------------------------------------------------------------
\* The host: files, documents, the workspace

WorkspaceFolder == <<"/", "w">>

\* The files the user can add, by fsPath (a file uri is its fsPath).
Uris ==
    { <<"/", "w", "/", "a">>,
      <<"/", "w", "/", "s", "/", "a">>,
      <<"/", "x", "/", "a">>,
      <<"/", "w", "/", "e">> }

\* The text of each document when the session starts; one file is empty.
InitDoc(u) ==
    CASE u = <<"/", "w", "/", "a">> -> <<"x">>
      [] u = <<"/", "w", "/", "s", "/", "a">> -> <<"y">>
      [] u = <<"/", "x", "/", "a">> -> <<"x", "y">>
      [] OTHER -> << >>

\* vscode.workspace.getWorkspaceFolder(uri): the folder containing uri, if any
getWorkspaceFolder(u) ==
    IF StartsWith(u, WorkspaceFolder \o <<SLASH>>) THEN WorkspaceFolder ELSE << >>

----------------------------------------------------------------------------
\* Context Set (ContextProvider)

\* mutant: the uris compared as objects (f.uri === uri), which never match
FindIndex_ByIdentity(files, u) == 0

\* _contextFiles.find(f => f.uri.toString() === uri.toString())
FindIndex(files, u) ==
    LET at == {i \in DOMAIN files : files[i].uri = u}
    IN  IF at = {} THEN 0 ELSE CHOOSE i \in at : \A j \in at : i <= j

\* the relative path addFile derives for uri
RelativePathOf(u) ==
    IF getWorkspaceFolder(u) # << >>
    THEN pathRelative(getWorkspaceFolder(u), u)
    ELSE basename(u)

\* the ContextFile addFile builds; seq is a history stamp, not a field of the code
NewContextFile(u, content, stamp) ==
    [ uri          |-> u,
      name         |-> basename(u),
      relativePath |-> RelativePathOf(u),
      content      |-> content,
      isActive     |-> TRUE,
      seq          |-> stamp ]

AlreadyNotice(u) == <<"File ">> \o basename(u) \o <<" is already in context">>
AddedNotice(u) == <<"Added ">> \o basename(u) \o <<" to context">>
RemovedNotice(name) == <<"Removed ">> \o name \o <<" from context">>
ReadFailedNotice == <<"Failed to read file: ", "ENOENT">>
ClearedNotice == <<"Context cleared">>

\* addFile up to its await: the duplicate check, then the suspended read
AddFileCall(u) ==
    /\ UNCHANGED editVars
    /\ ChatIdle
    /\ lastCall' = [op |-> "addFile", uri |-> u]
    /\ IF FindIndex(contextFiles, u) # 0
       THEN /\ notices' = <<AlreadyNotice(u)>>
            /\ fired' = 0
            /\ UNCHANGED <<contextFiles, nextSeq, pendingAdds, docs>>
       ELSE /\ nextSeq + Len(pendingAdds) < MaxAdds
            /\ Len(pendingAdds) < MaxPending
            /\ pendingAdds' = Append(pendingAdds, u)
            /\ notices' = << >>
            /\ fired' = 0
            /\ UNCHANGED <<contextFiles, nextSeq, docs>>

\* mutant: splice(index) without a count removes everything from index on
RemoveAt_Truncate(s, k) == SubSeq(s, 1, k - 1)

RemoveAt(s, k) == SubSeq(s, 1, k - 1) \o SubSeq(s, k + 1, Len(s))

\* mutant: a failed read still pushes an entry, without content
AddFileResume_PushAnyway(k, readOk) ==
    /\ UNCHANGED editVars
    /\ ChatIdle
    /\ k \in DOMAIN pendingAdds
    /\ lastCall' = [op |-> "addFile.resume", uri |-> pendingAdds[k]]
    /\ pendingAdds' = RemoveAt(pendingAdds, k)
    /\ contextFiles' =
          Append(contextFiles,
                 NewContextFile(pendingAdds[k],
                                IF readOk THEN docs[pendingAdds[k]] ELSE << >>, nextSeq + 1))
    /\ nextSeq' = nextSeq + 1
    /\ fired' = 1
    /\ notices' = IF readOk THEN <<AddedNotice(pendingAdds[k])>> ELSE <<ReadFailedNotice>>
    /\ UNCHANGED docs

\* addFile after its await: the read succeeded (push, refresh, notice) or threw
AddFileResume(k, readOk) ==
    /\ UNCHANGED editVars
    /\ ChatIdle
    /\ k \in DOMAIN pendingAdds
    /\ lastCall' = [op |-> "addFile.resume", uri |-> pendingAdds[k]]
    /\ pendingAdds' = RemoveAt(pendingAdds, k)
    /\ IF readOk
       THEN /\ contextFiles' =
                 Append(contextFiles,
                        NewContextFile(pendingAdds[k], docs[pendingAdds[k]], nextSeq + 1))
            /\ nextSeq' = nextSeq + 1
            /\ fired' = 1
            /\ notices' = <<AddedNotice(pendingAdds[k])>>
       ELSE /\ notices' = <<ReadFailedNotice>>
            /\ fired' = 0
            /\ UNCHANGED <<contextFiles, nextSeq>>
    /\ UNCHANGED docs

RemoveFile(u) ==
    /\ UNCHANGED editVars
    /\ ChatIdle
    /\ lastCall' = [op |-> "removeFile", uri |-> u]
    /\ LET index == FindIndex(contextFiles, u)
       IN  IF index # 0
           THEN /\ contextFiles' = RemoveAt(contextFiles, index)
                /\ fired' = 1
                /\ notices' = <<RemovedNotice(contextFiles[index].name)>>
           ELSE /\ fired' = 0
                /\ notices' = << >>
                /\ UNCHANGED contextFiles
    /\ UNCHANGED <<nextSeq, pendingAdds, docs>>

\* mutant: toggling reads the document again
Toggled_Reread(f) == [f EXCEPT !.isActive = ~f.isActive, !.content = docs[f.uri]]

\* file.isActive = !file.isActive
Toggled(f) == [f EXCEPT !.isActive = ~f.isActive]

ToggleFileActive(u) ==
    /\ UNCHANGED editVars
    /\ ChatIdle
    /\ lastCall' = [op |-> "toggleFileActive", uri |-> u]
    /\ LET index == FindIndex(contextFiles, u)
       IN  IF index # 0
           THEN /\ contextFiles' = [contextFiles EXCEPT ![index] = Toggled(@)]
                /\ fired' = 1
           ELSE /\ fired' = 0
                /\ UNCHANGED contextFiles
    /\ notices' = << >>
    /\ UNCHANGED <<nextSeq, pendingAdds, docs>>

ClearContext ==
    /\ UNCHANGED editVars
    /\ ChatIdle
    /\ lastCall' = [op |-> "clearContext", uri |-> << >>]
    /\ contextFiles' = << >>
    /\ fired' = 1
    /\ notices' = <<ClearedNotice>>
    /\ UNCHANGED <<nextSeq, pendingAdds, docs>>

\* mutant: the whole array returned, inactive entries included
getContextFiles_Unfiltered == contextFiles

IsActive(f) == f.isActive

\* getContextFiles(): _contextFiles.filter(f => f.isActive)
getContextFiles == SelectSeq(contextFiles, IsActive)

\* the filter of getActiveContextContent and _buildContextContent: f.isActive && f.content
IsActiveWithContent(f) == f.isActive /\ f.content # << >>

\* f => `// File: ${f.relativePath}\n${f.content}`
FileBlock(f) == <<"// File: ">> \o f.relativePath \o <<"\n">> \o f.content

\* Array.prototype.join
RECURSIVE Join(_, _)
Join(parts, sep) ==
    IF Len(parts) = 0 THEN << >>
    ELSE IF Len(parts) = 1 THEN parts[1]
    ELSE parts[1] \o sep \o Join(Tail(parts), sep)

BlockSeparator == <<"\n\n---\n\n">>

\* ContextProvider.getActiveContextContent()
getActiveContextContent ==
    LET kept == SelectSeq(contextFiles, IsActiveWithContent)
    IN  Join([n \in DOMAIN kept |-> FileBlock(kept[n])], BlockSeparator)

\* mutant: every file given is mapped, without the filter
buildContextContent_NoFilter(files) ==
    Join([n \in DOMAIN files |-> FileBlock(files[n])], BlockSeparator)

\* CodeForgeService._buildContextContent(contextFiles)
buildContextContent(files) ==
    LET kept == SelectSeq(files, IsActiveWithContent)
    IN  Join([n \in DOMAIN kept |-> FileBlock(kept[n])], BlockSeparator)

----------------------------------------------------------------------------
\* External Command Gateway (CodeForgeService._executeCommand)

Ok(text) == [ok |-> TRUE, text |-> text]
Err(text) == [ok |-> FALSE, text |-> text]

CliErrorPrefix == "CodeForgeAI CLI error: "
UnknownCliError == <<"Unknown error executing CodeForgeAI CLI">>
GenericSuccess == <<"Command executed successfully">>

\* What execAsync can do: resolve with {stdout, stderr} (exit code 0), or
\* reject with an Error (non-zero exit, failure to spawn, kill on timeout).
\* child_process.exec rejects with Error instances only.
ExecOutcomes ==
    [ threw : {FALSE}, isError : {TRUE}, message : {<< >>},
      stdout : {<< >>, <<"ok">>}, stderr : {<< >>, <<"warning: deprecated">>} ]
    \cup
    [ threw : {TRUE}, isError : {TRUE},
      message : { <<"Command failed: ", "exit 1">>, <<"Command failed: ", "SIGTERM">> },
      stdout : {<< >>}, stderr : {<< >>} ]

NoOutcome ==
    [threw |-> FALSE, isError |-> FALSE, message |-> << >>, stdout |-> << >>, stderr |-> << >>]

\* the catch block: wrap an Error's message, else the fixed text
WrapCaught(isError, message) ==
    IF isError THEN Err(<<CliErrorPrefix>> \o message) ELSE Err(UnknownCliError)

\* mutant: any stderr text is a failure, stdout or not
executeCommand_AnyStderr(o) ==
    IF o.threw
    THEN WrapCaught(o.isError, o.message)
    ELSE IF o.stderr # << >>
         THEN WrapCaught(TRUE, o.stderr)
         ELSE Ok(IF o.stdout # << >> THEN o.stdout ELSE GenericSuccess)

\* mutant: stderr without stdout is not thrown but returned
executeCommand_StderrReturned(o) ==
    IF o.threw
    THEN WrapCaught(o.isError, o.message)
    ELSE Ok(IF o.stdout # << >> THEN o.stdout
            ELSE IF o.stderr # << >> THEN o.stderr
            ELSE GenericSuccess)

\* the result of _executeCommand for what execAsync did
executeCommand(o) ==
    IF o.threw
    THEN WrapCaught(o.isError, o.message)
    ELSE IF o.stderr # << >> /\ o.stdout = << >>
         THEN WrapCaught(TRUE, o.stderr)
         ELSE Ok(IF o.stdout # << >> THEN o.stdout
                 ELSE IF o.stderr # << >> THEN o.stderr
                 ELSE GenericSuccess)

----------------------------------------------------------------------------
\* The file system below os.tmpdir()

EmptyFs == [p \in {} |-> 0]
DirNode == [type |-> "dir", content |-> << >>]
FileNode(content) == [type |-> "file", content |-> content]

\* p and the directories above it, up to the first component
Ancestors(p) == {SubSeq(p, 1, i - 1) : i \in {j \in DOMAIN p : j > 1 /\ p[j] = SLASH}} \cup {p}

\* fs.promises.mkdir(dir, { recursive: true })
MkdirP(fsys, dir) ==
    [p \in DOMAIN fsys \cup Ancestors(dir) |-> IF p \in DOMAIN fsys THEN fsys[p] ELSE DirNode]

\* fs.promises.writeFile(path, content)
WriteFile(fsys, path, content) ==
    [p \in DOMAIN fsys \cup {path} |-> IF p = path THEN FileNode(content) ELSE fsys[p]]

Below(dir, p) == p = dir \/ StartsWith(p, dir \o <<SLASH>>)

\* fs.promises.rm(dir, { recursive: true, force: true })
RmRf(fsys, dir) ==
    [p \in {q \in DOMAIN fsys : ~Below(dir, q)} |-> fsys[p]]

\* the entries of directory dir
Children(fsys, dir) ==
    {p \in DOMAIN fsys : StartsWith(p, dir \o <<SLASH>>) /\ LastSlash(p) = Len(dir) + 1}

Reverse(s) == [i \in DOMAIN s |-> s[Len(s) + 1 - i]]

\* fs.promises.readdir(dir): the entries in one of the orders the host may list them
readdir(fsys, dir, rev) ==
    LET S == Children(fsys, dir)
        s == CHOOSE t \in [1..Cardinality(S) -> S] : Range(t) = S
    IN  IF rev THEN Reverse(s) ELSE s

\* mutant: subdirectories are not entered
traverse_Flat(fsys, currentDir, rev) ==
    SelectSeq(readdir(fsys, currentDir, rev),
              LAMBDA e : fsys[e].type = "file" /\ EndsWith(basename(e), <<SENTINEL>>))

\* _findEditFiles: depth-first, collecting the files named *.codeforgedit
RECURSIVE traverse(_, _, _)
traverse(fsys, currentDir, rev) ==
    LET entries == readdir(fsys, currentDir, rev)
        found[k \in 0..Len(entries)] ==
            IF k = 0 THEN << >>
            ELSE found[k - 1] \o
                 ( IF fsys[entries[k]].type = "dir"
                   THEN traverse(fsys, entries[k], rev)
                   ELSE IF EndsWith(basename(entries[k]), <<SENTINEL>>)
                        THEN <<entries[k]>>
                        ELSE << >> )
    IN  found[Len(entries)]

----------------------------------------------------------------------------
\* The Mode State Machine (ModeManager)

\* Object.values(ExtensionMode): the modes in declared order
\* mutant: the enum declares Agent before Edit
ExtensionMode_Swapped == <<"agent", "edit", "ask">>

\* enum ExtensionMode { Edit = 'edit', Agent = 'agent', Ask = 'ask' }:
\* Object.values(ExtensionMode) lists the values in declaration order
ExtensionMode == <<"edit", "agent", "ask">>
Modes == Range(ExtensionMode)

\* modes.indexOf(m), counted from 0
IndexOf(modes, m) == (CHOOSE n \in DOMAIN modes : modes[n] = m) - 1

\* mutant: the index stops at the last mode instead of wrapping
NextIndex_NoWrap(currentIndex, length) ==
    IF currentIndex + 1 < length THEN currentIndex + 1 ELSE currentIndex

\* (currentIndex + 1) % modes.length
NextIndex(currentIndex, length) == (currentIndex + 1) % length

\* switchMode: modes[nextIndex]
NextMode(m) ==
    ExtensionMode[NextIndex(IndexOf(ExtensionMode, m), Len(ExtensionMode)) + 1]

\* mode.toUpperCase()
ToUpperCase(m) ==
    CASE m = "edit" -> "EDIT" [] m = "agent" -> "AGENT" [] m = "ask" -> "ASK"

SwitchedNotice(m) == <<"Switched to ", ToUpperCase(m), " mode">>

\* mutant: setMode fires the event whether or not the mode changes
ChangeEvents_Always(current, m) == <<m>>

\* setMode: the events fired, _onModeChanged.fire(mode) inside the guard
ChangeEvents(current, m) == IF current # m THEN <<m>> ELSE << >>

\* The trail keeps the latest MaxTrail entries; an empty trail records nothing.
Remember(tr, entry) ==
    IF tr = << >> THEN << >>
    ELSE LET longer == Append(tr, entry)
         IN  IF Len(longer) > MaxTrail THEN Tail(longer) ELSE longer

\* setMode(m), called by `via`
setMode(m, via) ==
    /\ mode' = IF mode # m THEN m ELSE mode
    /\ modeEvents' = ChangeEvents(mode, m)
    /\ notices' = IF mode # m THEN <<SwitchedNotice(m)>> ELSE << >>
    /\ modeCall' = [op |-> via, arg |-> m]
    /\ trail' = Remember(trail, [mode |-> mode', via |-> via])

\* switchMode(): the command codeforgex.switchMode, or the chat panel's
\* 'switchMode' message
SwitchMode ==
    /\ setMode(NextMode(mode), "switchMode")
    /\ lastCall' = [op |-> "switchMode", uri |-> << >>]
    /\ fired' = 0
    /\ UNCHANGED <<ctxVars, docs, editVars, messages, req, webVars>>

\* selectMode(): the step after `await showQuickPick`, sel the picked mode or
\* "undefined" when the pick was dismissed
SelectModePick(sel) ==
    /\ IF sel \in Modes
       THEN setMode(sel, "selectMode")
       ELSE /\ modeEvents' = << >>
            /\ notices' = << >>
            /\ modeCall' = [op |-> "selectMode", arg |-> "none"]
            /\ UNCHANGED <<mode, trail>>
    /\ lastCall' = [op |-> "selectMode", uri |-> << >>]
    /\ fired' = 0
    /\ UNCHANGED <<ctxVars, docs, editVars, messages, req, webVars>>

----------------------------------------------------------------------------
\* The conversation layer (ChatProvider): the reply to a request

Reqs == {"r1", "r2"}

\* The processEdit invocation a request runs.
InvOf(r) == "e1"

\* mutant: every mode falls to the default branch
HandlerFor_AllPrompt(m) == "processPrompt"

\* switch (currentMode) in _handleUserMessage
HandlerFor(m) ==
    CASE m = "edit" -> "processEdit"
      [] m = "agent" -> "processAgent"
      [] m = "ask" -> "processPrompt"
      [] OTHER -> "processPrompt"

UserMessage(text, m, r) == [type |-> "user", content |-> text, mode |-> m, req |-> r]

\* mutant: the assistant message reads the mode again when the handler returns
ReplyMode_Live(currentMode, live) == live

\* assistantMessage.mode: the const currentMode read before the handler ran
ReplyMode(currentMode, live) == currentMode

\* mutant: the catch clause takes every error for a non-Error value
ErrorContent_Unknown(err) == <<"Error: ", "Unknown error occurred">>

\* `Error: ${error instanceof Error ? error.message : 'Unknown error occurred'}`;
\* every rejection of a CodeForgeService handler is an Error instance
ErrorContent(err) == <<"Error: ">> \o err.text

\* The message _handleUserMessage adds when the handler has settled with res.
ReplyMessage(r, currentMode, res) ==
    IF res.ok
    THEN [type |-> "assistant", content |-> res.text,
          mode |-> ReplyMode(currentMode, mode), req |-> r]
    ELSE [type |-> "system", content |-> ErrorContent(res), mode |-> "none", req |-> r]

\* _updateWebview(), n times in one step: postMessage({ type: 'updateMessages', ... })
updateWebview(n) == toWebview' = toWebview + n

\* The rest of _handleUserMessage once its handler has settled: one message
\* is added, from the try block or from the catch clause.
Settle(r, res, calls) ==
    LET msg == ReplyMessage(r, req[r].currentMode, res)
    IN  /\ messages' = Append(messages, msg)
        /\ updateWebview(1)
        /\ UNCHANGED <<isWaitingForResponse, toHost>>
        /\ req' = [req EXCEPT ![r] =
               [@ EXCEPT !.pc = "done", !.res = res, !.added = Append(@, msg),
                         !.calls = calls]]

\* What a step of invocation i means to the conversation layer: when the step
\* settles processEdit and a request awaits it, the request goes on in the
\* same turn (promise continuations run before any other event).
ChatFrame(i) ==
    LET owners == {r \in Reqs : req[r].pc = "await" /\ req[r].handler = "processEdit"
                                   /\ InvOf(r) = i}
    IN  IF owners = {} \/ inv'[i].pc # "done"
        THEN ChatIdle
        ELSE /\ Settle(CHOOSE r \in owners : TRUE, inv'[i].result, inv'[i].execs)
             /\ ModeIdle

----------------------------------------------------------------------------
\* Edit Reconciliation Pipeline (CodeForgeService.processEdit)

Invs == {"e1", "e2"}

NoFilesError ==
    Err(<<"No files in context for editing. Please add files to context first.">>)
FsError(op) == Err(<<"EIO: ", op>>)
NoResult == Err(<< >>)

\* path.join(os.tmpdir(), 'codeforgex-' + Date.now())
TempDirAt(t) == <<"/tmp/codeforgex-", ToString(t)>>

\* editFile.replace('.codeforgedit', ''): the first occurrence is removed
StripSentinel(p) ==
    LET at == {i \in DOMAIN p : p[i] = SENTINEL}
    IN  IF at = {} THEN p
        ELSE RemoveAt(p, CHOOSE i \in at : \A j \in at : i <= j)

\* originalFiles.find(f => originalPath.endsWith(f.relativePath)): its index, or 0
FindOriginal(originalFiles, originalPath) ==
    LET at == {i \in DOMAIN originalFiles : EndsWith(originalPath, originalFiles[i].relativePath)}
    IN  IF at = {} THEN 0 ELSE CHOOSE i \in at : \A j \in at : i <= j

\* mutant: a failure while staging is swallowed and the tool runs all the same
OnThrow_StageGoesOn(step) == IF step = "stage" THEN "exec" ELSE "cleanup"

\* mutant: no finally clause, a throw leaves processEdit at once
OnThrow_NoFinally(step) == "done"

\* where control goes when a step of processEdit throws: _createTempContext runs
\* before the try block, the other steps inside it, so its finally clause runs
OnThrow(step) == IF step = "stage" THEN "done" ELSE "cleanup"

\* mutant: rm's error is not caught and replaces what was pending
CleanupOutcome_Rethrow(pend, rmOk) == IF rmOk THEN pend ELSE FsError("rm")

\* what processEdit settles with after _cleanupTempDir, which catches rm's error
CleanupOutcome(pend, rmOk) == pend

\* mutant: the prompt always announces one file
FoundPrompt_One(n) == <<"Found ", "1", " edited file(s). Apply changes?">>

\* _handleEditResults: `Found ${editFiles.length} edited file(s). Apply changes?`
FoundPrompt(n) == <<"Found ", ToString(n), " edited file(s). Apply changes?">>
AppliedNotice == <<"All edits applied successfully!">>
ReviewNotice == <<"Review mode not yet implemented">>
Choices == {"Apply All", "Review Each", "Cancel", "undefined"}

\* An invocation that is not part of the behaviour / has not been called yet.
OffInv ==
    [ pc |-> "off", files |-> << >>, tempDir |-> << >>, k |-> 0, j |-> 0,
      gw |-> NoOutcome, gwRes |-> NoResult, text |-> << >>, pend |-> NoResult, result |-> NoResult,
      editFiles |-> << >>, choice |-> "none",
      \* history
      created |-> FALSE, fsOps |-> 0, execs |-> 0, finds |-> 0, prompts |-> 0,
      cleanups |-> 0, rmFailed |-> FALSE, applied |-> {}, docs0 |-> << >>,
      appliedIdx |-> {}, failedIdx |-> {} ]
IdleInv == [OffInv EXCEPT !.pc = "idle"]

EditStep(i) ==
    /\ lastCall' = [op |-> "processEdit", uri |-> << >>]
    /\ fired' = 0
    /\ UNCHANGED ctxVars

\* mutant: the empty-list check is missing
ProcessEditCall_NoGuard(i, t) ==
    /\ inv[i].pc = "idle"
    /\ EditStep(i)
    /\ t >= now
    /\ now' = t
    /\ inv' = [inv EXCEPT ![i] =
           [@ EXCEPT !.pc = "mkdir", !.files = getContextFiles, !.docs0 = docs,
                     !.tempDir = TempDirAt(t)]]
    /\ notices' = << >>
    /\ UNCHANGED <<fs, docs>>
    /\ ChatIdle

\* processEdit(request, contextFiles) up to the first await, called as the
\* conversation layer calls it, with getContextFiles(); Date.now() reads t,
\* which is not before the reading of an earlier call
ProcessEditCall(i, t) ==
    /\ inv[i].pc = "idle"
    /\ EditStep(i)
    /\ t >= now
    /\ now' = t
    /\ LET files == getContextFiles
       IN  IF Len(files) = 0
           THEN inv' = [inv EXCEPT ![i] =
                    [@ EXCEPT !.pc = "done", !.result = NoFilesError, !.docs0 = docs]]
           ELSE inv' = [inv EXCEPT ![i] =
                    [@ EXCEPT !.pc = "mkdir", !.files = files, !.docs0 = docs,
                              !.tempDir = TempDirAt(t)]]
    /\ notices' = << >>
    /\ UNCHANGED <<fs, docs>>
    /\ ChatIdle

\* _createTempContext: mkdir(tempDir, { recursive: true })
MkdirTemp(i, ok) ==
    /\ inv[i].pc = "mkdir"
    /\ EditStep(i)
    /\ IF ok
       THEN /\ fs' = MkdirP(fs, inv[i].tempDir)
            /\ inv' = [inv EXCEPT ![i] =
                   [@ EXCEPT !.pc = "stage", !.k = 1, !.created = TRUE, !.fsOps = @ + 1]]
       ELSE /\ inv' = [inv EXCEPT ![i] =
                   [@ EXCEPT !.pc = OnThrow("stage"), !.result = FsError("mkdir"),
                             !.fsOps = @ + 1]]
            /\ UNCHANGED fs
    /\ notices' = << >>
    /\ UNCHANGED <<now, docs>>
    /\ ChatFrame(i)

\* mutant: _createTempContext returns after the first file
LoopDone_Early(k, n) == TRUE

\* for (const file of contextFiles): the iteration on element k of n is the last
LoopDone(k, n) == k = n

\* _createTempContext: one iteration of the loop over contextFiles
StageFile(i, out) ==
    /\ inv[i].pc = "stage"
    /\ EditStep(i)
    /\ LET r == inv[i]
           file == r.files[r.k]
           filePath == pathJoin(r.tempDir, file.relativePath)
           nextPc == IF LoopDone(r.k, Len(r.files)) THEN "exec" ELSE "stage"
       IN  IF file.content = << >>
           THEN /\ out = "ok"
                /\ inv' = [inv EXCEPT ![i] = [@ EXCEPT !.k = @ + 1, !.pc = nextPc]]
                /\ UNCHANGED fs
           ELSE CASE out = "ok" ->
                      /\ fs' = WriteFile(MkdirP(fs, dirname(filePath)), filePath, file.content)
                      /\ inv' = [inv EXCEPT ![i] =
                             [@ EXCEPT !.k = @ + 1, !.pc = nextPc, !.fsOps = @ + 2]]
                  [] out = "mkdirFail" ->
                      /\ UNCHANGED fs
                      /\ inv' = [inv EXCEPT ![i] =
                             [@ EXCEPT !.pc = OnThrow("stage"), !.result = FsError("mkdir"),
                                       !.fsOps = @ + 1]]
                  [] out = "writeFail" ->
                      /\ fs' = MkdirP(fs, dirname(filePath))
                      /\ inv' = [inv EXCEPT ![i] =
                             [@ EXCEPT !.pc = OnThrow("stage"), !.result = FsError("writeFile"),
                                       !.fsOps = @ + 2]]
    /\ notices' = << >>
    /\ UNCHANGED <<now, docs>>
    /\ ChatFrame(i)

\* The sentinel files the external tool may leave in the staging directory:
\* one beside each staged file, and one for a file "ba" of its own making.
ToolCandidates(r) ==
    { pathJoin(r.tempDir, r.files[n].relativePath) \o <<SENTINEL>> :
        n \in {m \in DOMAIN r.files : r.files[m].content # << >>} }
    \cup { pathJoin(r.tempDir, <<"b", "a", SENTINEL>>) }

ToolText == <<"z">>

RECURSIVE WriteAll(_, _, _)
WriteAll(fsys, paths, content) ==
    IF paths = {} THEN fsys
    ELSE LET p == CHOOSE q \in paths : TRUE
         IN  WriteAll(WriteFile(fsys, p, content), paths \ {p}, content)

\* _executeCommand(['edit', tempDir, '--user_prompt', ...]): the tool runs on the
\* staging directory, writes some sentinel files W, and ends with outcome o
ExecuteCommand(i, o) ==
    /\ inv[i].pc = "exec"
    /\ EditStep(i)
    /\ \E W \in SUBSET ToolCandidates(inv[i]) :
          /\ inv[i].tempDir \in DOMAIN fs \/ W = {}
          /\ fs' = WriteAll(fs, W, ToolText)
    /\ LET res == executeCommand(o)
       IN  IF res.ok
           THEN inv' = [inv EXCEPT ![i] =
                    [@ EXCEPT !.pc = "find", !.gw = o, !.gwRes = res, !.text = res.text,
                              !.execs = @ + 1]]
           ELSE inv' = [inv EXCEPT ![i] =
                    [@ EXCEPT !.pc = OnThrow("exec"), !.gw = o, !.gwRes = res,
                              !.pend = res, !.execs = @ + 1]]
    /\ notices' = << >>
    /\ UNCHANGED <<now, docs>>
    /\ ChatFrame(i)

\* _handleEditResults: _findEditFiles, then the prompt when something was found
FindEditFiles(i, ok, rev) ==
    /\ inv[i].pc = "find"
    /\ EditStep(i)
    /\ IF ok /\ inv[i].tempDir \in DOMAIN fs
       THEN LET editFiles == traverse(fs, inv[i].tempDir, rev)
            IN  IF Len(editFiles) > 0
                THEN /\ inv' = [inv EXCEPT ![i] =
                            [@ EXCEPT !.pc = "prompt", !.editFiles = editFiles,
                                      !.finds = @ + 1, !.prompts = @ + 1]]
                     /\ notices' = <<FoundPrompt(Len(editFiles))>>
                ELSE /\ inv' = [inv EXCEPT ![i] =
                            [@ EXCEPT !.pc = "cleanup", !.pend = Ok(inv[i].text),
                                      !.finds = @ + 1]]
                     /\ notices' = << >>
       ELSE /\ rev = FALSE
            /\ inv' = [inv EXCEPT ![i] =
                   [@ EXCEPT !.pc = OnThrow("find"), !.pend = FsError("readdir"),
                             !.finds = @ + 1]]
            /\ notices' = << >>
    /\ UNCHANGED <<fs, now, docs>>
    /\ ChatFrame(i)

\* _handleEditResults: the user's answer to the prompt
\* mutant: 'Review Each' applies the edits as 'Apply All' does
AppliesEdits_ReviewToo(action) == action \in {"Apply All", "Review Each"}

\* _handleEditResults: if (action === 'Apply All') await this._applyAllEdits(...)
AppliesEdits(action) == action = "Apply All"

UserChoice(i, action) ==
    /\ inv[i].pc = "prompt"
    /\ EditStep(i)
    /\ IF AppliesEdits(action)
       THEN /\ inv' = [inv EXCEPT ![i] = [@ EXCEPT !.pc = "apply", !.j = 1, !.choice = action]]
            /\ notices' = << >>
       ELSE /\ inv' = [inv EXCEPT ![i] =
                   [@ EXCEPT !.pc = "cleanup", !.pend = Ok(inv[i].text), !.choice = action]]
            /\ notices' = IF action = "Review Each" THEN <<ReviewNotice>> ELSE << >>
    /\ UNCHANGED <<fs, now, docs>>
    /\ ChatFrame(i)

\* _applyAllEdits: one iteration of the loop over editFiles
ApplyEdit(i, out) ==
    /\ inv[i].pc = "apply"
    /\ EditStep(i)
    /\ LET r == inv[i]
           editFile == r.editFiles[r.j]
           originalPath == StripSentinel(editFile)
           n == FindOriginal(r.files, originalPath)
           last == r.j = Len(r.editFiles)
           goOn == [r EXCEPT !.j = @ + 1,
                             !.pc = IF last THEN "cleanup" ELSE "apply",
                             !.pend = IF last THEN Ok(r.text) ELSE @]
       IN  /\ IF n = 0
              THEN /\ out = "ok"
                   /\ inv' = [inv EXCEPT ![i] = goOn]
                   /\ UNCHANGED docs
              ELSE CASE out = "ok" /\ editFile \in DOMAIN fs ->
                         /\ docs' = [docs EXCEPT ![r.files[n].uri] = fs[editFile].content]
                         /\ inv' = [inv EXCEPT ![i] =
                                [goOn EXCEPT !.applied = @ \cup {r.files[n].uri},
                                             !.appliedIdx = @ \cup {r.j}]]
                     [] out = "rejected" /\ editFile \in DOMAIN fs ->
                         /\ inv' = [inv EXCEPT ![i] =
                                [goOn EXCEPT !.failedIdx = @ \cup {r.j}]]
                         /\ UNCHANGED docs
                     [] out = "openFail" /\ editFile \in DOMAIN fs ->
                         /\ inv' = [inv EXCEPT ![i] =
                                [@ EXCEPT !.pc = OnThrow("apply"),
                                          !.pend = Err(<<"cannot open ">> \o r.files[n].uri),
                                          !.failedIdx = @ \cup {r.j}]]
                         /\ UNCHANGED docs
                     [] out = "readFail" ->
                         /\ inv' = [inv EXCEPT ![i] =
                                [@ EXCEPT !.pc = OnThrow("apply"), !.pend = FsError("readFile"),
                                          !.failedIdx = @ \cup {r.j}]]
                         /\ UNCHANGED docs
                     [] OTHER -> FALSE
           /\ notices' = IF last /\ inv'[i].pc = "cleanup" /\ inv'[i].pend.ok
                         THEN <<AppliedNotice>> ELSE << >>
    /\ UNCHANGED <<fs, now>>
    /\ ChatFrame(i)

\* the finally clause: _cleanupTempDir, then processEdit returns or rethrows
CleanupTempDir(i, rmOk) ==
    /\ inv[i].pc = "cleanup"
    /\ EditStep(i)
    /\ fs' = IF rmOk THEN RmRf(fs, inv[i].tempDir) ELSE fs
    /\ inv' = [inv EXCEPT ![i] =
           [@ EXCEPT !.pc = "done", !.result = CleanupOutcome(inv[i].pend, rmOk),
                     !.cleanups = @ + 1, !.rmFailed = ~rmOk]]
    /\ notices' = << >>
    /\ UNCHANGED <<now, docs>>
    /\ ChatFrame(i)

\* No _handleUserMessage invocation yet.
IdleReq ==
    [ pc |-> "idle", text |-> << >>, handler |-> "none", currentMode |-> "none",
      res |-> NoResult, added |-> << >>,
      \* history: the list the handler was called with, its _executeCommand calls
      files |-> << >>, calls |-> 0 ]

\* After construction: _currentMode = ExtensionMode.Ask, _messages = []
InitConversation ==
    /\ mode = "ask"
    /\ modeEvents = << >>
    /\ modeCall = NoModeCall
    /\ trail = << >>
    /\ messages = << >>
    /\ req = [r \in Reqs |-> IdleReq]
    /\ isWaitingForResponse = FALSE
    /\ toHost = << >>
    /\ toWebview = 0

\* The Context Sets an Edit invocation starts from: up to MaxCtx different
\* files in any order, each active or not, each with the text it had when added.
ContextShapes ==
    { s \in UNION {[1..n -> Uris \X BOOLEAN] : n \in 0..MaxCtx} :
        \A a, b \in DOMAIN s : a # b => s[a][1] # s[b][1] }

ContextOf(s) ==
    [n \in DOMAIN s |->
        [NewContextFile(s[n][1], InitDoc(s[n][1]), n) EXCEPT !.isActive = s[n][2]]]

InitEdit ==
    /\ \E s \in ContextShapes :
          /\ contextFiles = ContextOf(s)
          /\ nextSeq = Len(s)
    /\ pendingAdds = << >>
    /\ docs = [u \in Uris |-> InitDoc(u)]
    /\ notices = << >>
    /\ fired = 0
    /\ lastCall = [op |-> "none", uri |-> << >>]
    /\ fs = EmptyFs
    /\ now = 1
    /\ inv = [i \in Invs |-> IF i = "e1" THEN IdleInv ELSE OffInv]
    /\ InitConversation

StageOutcomes == {"ok", "mkdirFail", "writeFail"}
ApplyOutcomes == {"ok", "rejected", "openFail", "readFail"}

NextEdit ==
    \/ \E i \in Invs, t \in 1..MaxClock : ProcessEditCall(i, t)
    \/ \E i \in Invs, ok \in BOOLEAN : MkdirTemp(i, ok)
    \/ \E i \in Invs, out \in StageOutcomes : StageFile(i, out)
    \/ \E i \in Invs, o \in ExecOutcomes : ExecuteCommand(i, o)
    \/ \E i \in Invs, ok \in BOOLEAN, rev \in BOOLEAN : FindEditFiles(i, ok, rev)
    \/ \E i \in Invs, action \in Choices : UserChoice(i, action)
    \/ \E i \in Invs, out \in ApplyOutcomes : ApplyEdit(i, out)
    \/ \E i \in Invs, rmOk \in BOOLEAN : CleanupTempDir(i, rmOk)

SpecEdit == InitEdit /\ [][NextEdit]_vars

\* ---- An editor that keeps typing while processEdit runs ----

\* What the user types into an open document.
UserMark == "!"

\* The user changes the live document of uri u in the editor. The content a
\* context file holds was read once, by addFile, and nothing refreshes it.
UserEdit(u) ==
    /\ UserMark \notin Range(docs[u])
    /\ docs' = [docs EXCEPT ![u] = Append(@, UserMark)]
    /\ lastCall' = [op |-> "userEdit", uri |-> u]
    /\ fired' = 0
    /\ notices' = << >>
    /\ UNCHANGED <<ctxVars, editVars>>
    /\ ChatIdle

NextLive ==
    \/ NextEdit
    \/ \E n \in DOMAIN contextFiles : UserEdit(contextFiles[n].uri)

\* One processEdit invocation on a Context Set of one file.
InitLive == InitEdit /\ Len(contextFiles) = 1

SpecLive == InitLive /\ [][NextLive]_vars

\* ---- Two processEdit calls in flight at once ----

\* Every await of one invocation lets the other run. The Context Set is one
\* active file, and the host is at its best: the file system fails only where
\* the other invocation has removed something, the tool ends in one of two
\* ways, and the user answers 'Apply All' or 'Cancel'.
InitTwo ==
    /\ contextFiles = ContextOf(<< <<<<SLASH, "w", SLASH, "a">>, TRUE>> >>)
    /\ nextSeq = 1
    /\ pendingAdds = << >>
    /\ docs = [u \in Uris |-> InitDoc(u)]
    /\ notices = << >>
    /\ fired = 0
    /\ lastCall = [op |-> "none", uri |-> << >>]
    /\ fs = EmptyFs
    /\ now = 1
    /\ inv = [i \in Invs |-> IdleInv]
    /\ InitConversation

TwoOutcomes ==
    { o \in ExecOutcomes :
        \/ o.threw /\ o.message = <<"Command failed: ", "exit 1">>
        \/ ~o.threw /\ o.stdout = <<"ok">> /\ o.stderr = << >> }

NextTwo ==
    \/ \E i \in Invs, t \in 1..MaxClock : ProcessEditCall(i, t)
    \/ \E i \in Invs : MkdirTemp(i, TRUE)
    \/ \E i \in Invs : StageFile(i, "ok")
    \/ \E i \in Invs, o \in TwoOutcomes : ExecuteCommand(i, o)
    \/ \E i \in Invs, ok \in BOOLEAN : FindEditFiles(i, ok, FALSE)
    \/ \E i \in Invs, action \in {"Apply All", "Cancel"} : UserChoice(i, action)
    \/ \E i \in Invs, out \in {"ok", "readFail"} : ApplyEdit(i, out)
    \/ \E i \in Invs : CleanupTempDir(i, TRUE)

SpecTwo == InitTwo /\ [][NextTwo]_vars

\* ---- A tool that makes directories and files of its own ----

\* Paths the running tool may create below the staging directory besides the
\* sentinels of ToolCandidates: a directory whose name ends with the sentinel
\* suffix, holding a sentinel file and another file, and a sentinel file in a
\* plain subdirectory.
ToolOwnPaths ==
    { <<"d", SENTINEL, SLASH, "a", SENTINEL>>,
      <<"d", SENTINEL, SLASH, "b">>,
      <<"t", SLASH, "c", SENTINEL>> }

\* While _executeCommand is awaited the tool writes the file at rel below the
\* staging directory, making the directories above it.
ToolWrites(i, rel) ==
    /\ inv[i].pc = "exec"
    /\ inv[i].tempDir \in DOMAIN fs
    /\ pathJoin(inv[i].tempDir, rel) \notin DOMAIN fs
    /\ EditStep(i)
    /\ LET p == pathJoin(inv[i].tempDir, rel)
       IN  fs' = WriteFile(MkdirP(fs, dirname(p)), p, ToolText)
    /\ notices' = << >>
    /\ UNCHANGED <<now, docs, inv>>
    /\ ChatIdle

NextTree ==
    \/ NextEdit
    \/ \E i \in Invs, rel \in ToolOwnPaths : ToolWrites(i, rel)

SpecTree == InitLive /\ [][NextTree]_vars

\* ---- The conversation: requests, their handlers, and mode switches ----

IsSpace(c) == c \in {" ", "\t", "\n"}

\* message.trim()
RECURSIVE Trim(_)
Trim(text) ==
    IF text = << >> THEN text
    ELSE IF IsSpace(Head(text)) THEN Trim(Tail(text))
    ELSE IF IsSpace(text[Len(text)]) THEN Trim(SubSeq(text, 1, Len(text) - 1))
    ELSE text

\* What the user sends from the chat panel.
UserTexts == { <<" ">>, <<"q">> }

\* _handleUserMessage(text), up to its first await. A blank message ends it at
\* once. Otherwise the user message is added and the handler for the current
\* mode is called; processEdit runs up to its own first await, or throws on an
\* empty list, which the catch clause turns into a system message in the same
\* turn.
HandleUserMessage(r, text, t) ==
    /\ req[r].pc = "idle"
    /\ IF Trim(text) = << >>
       THEN /\ t = now
            /\ req' = [req EXCEPT ![r] = [@ EXCEPT !.pc = "done", !.text = text]]
            /\ UNCHANGED <<messages, inv, now, toWebview>>
       ELSE LET currentMode == mode
                user == UserMessage(text, mode, r)
                files == getContextFiles
                handler == HandlerFor(currentMode)
                i == InvOf(r)
                called == [req[r] EXCEPT !.pc = "await", !.text = text, !.handler = handler,
                                         !.currentMode = currentMode, !.added = <<user>>,
                                         !.files = files]
            IN  IF handler = "processEdit"
                THEN /\ t >= now
                     /\ now' = t
                     /\ IF Len(files) = 0
                        THEN LET msg == ReplyMessage(r, currentMode, NoFilesError)
                             IN  /\ inv' = [inv EXCEPT ![i] =
                                        [IdleInv EXCEPT !.pc = "done", !.result = NoFilesError,
                                                        !.docs0 = docs]]
                                 /\ messages' = messages \o <<user, msg>>
                                 /\ updateWebview(2)
                                 /\ req' = [req EXCEPT ![r] =
                                        [called EXCEPT !.pc = "done", !.res = NoFilesError,
                                                       !.added = <<user, msg>>]]
                        ELSE /\ inv' = [inv EXCEPT ![i] =
                                    [IdleInv EXCEPT !.pc = "mkdir", !.files = files,
                                                    !.docs0 = docs, !.tempDir = TempDirAt(t)]]
                             /\ messages' = Append(messages, user)
                             /\ updateWebview(1)
                             /\ req' = [req EXCEPT ![r] = called]
                ELSE /\ t = now
                     /\ messages' = Append(messages, user)
                     /\ updateWebview(1)
                     /\ req' = [req EXCEPT ![r] = called]
                     /\ UNCHANGED <<inv, now>>
    /\ lastCall' = [op |-> "sendMessage", uri |-> << >>]
    /\ fired' = 0
    /\ notices' = << >>
    /\ ModeIdle
    /\ UNCHANGED <<ctxVars, docs, fs>>

\* A 'sendMessage' reaches the host from a user who sends a message when the
\* reply to the one before has come.
UserSends(r, text, t) ==
    /\ \A q \in Reqs : req[q].pc # "await"
    /\ r = "r1" \/ req["r1"].pc = "done"
    /\ HandleUserMessage(r, text, t)
    /\ UNCHANGED <<isWaitingForResponse, toHost>>

\* processPrompt / processAgent: the one _executeCommand(['prompt', ...]) call
\* settles with outcome o, and _handleUserMessage adds the reply.
GatewayReply(r, o) ==
    /\ req[r].pc = "await"
    /\ req[r].handler \in {"processPrompt", "processAgent"}
    /\ Settle(r, executeCommand(o), 1)
    /\ lastCall' = [op |-> req[r].handler, uri |-> << >>]
    /\ fired' = 0
    /\ notices' = << >>
    /\ ModeIdle
    /\ UNCHANGED <<ctxVars, docs, editVars>>

\* The Context Set is empty or holds one active file.
InitChat ==
    /\ \E s \in {<< >>, << <<<<SLASH, "w", SLASH, "a">>, TRUE>> >>} :
          /\ contextFiles = ContextOf(s)
          /\ nextSeq = Len(s)
    /\ pendingAdds = << >>
    /\ docs = [u \in Uris |-> InitDoc(u)]
    /\ notices = << >>
    /\ fired = 0
    /\ lastCall = [op |-> "none", uri |-> << >>]
    /\ fs = EmptyFs
    /\ now = 1
    /\ inv = [i \in Invs |-> OffInv]
    /\ InitConversation

NextChat ==
    \/ \E r \in Reqs, text \in UserTexts, t \in 1..MaxClock : UserSends(r, text, t)
    \/ \E r \in Reqs, o \in ExecOutcomes : GatewayReply(r, o)
    \/ SwitchMode
    \/ \E i \in Invs, ok \in BOOLEAN : MkdirTemp(i, ok)
    \/ \E i \in Invs, out \in StageOutcomes : StageFile(i, out)
    \/ \E i \in Invs, o \in ExecOutcomes : ExecuteCommand(i, o)
    \/ \E i \in Invs, ok \in BOOLEAN, rev \in BOOLEAN : FindEditFiles(i, ok, rev)
    \/ \E i \in Invs, action \in Choices : UserChoice(i, action)
    \/ \E i \in Invs, out \in ApplyOutcomes : ApplyEdit(i, out)
    \/ \E i \in Invs, rmOk \in BOOLEAN : CleanupTempDir(i, rmOk)

SpecChat == InitChat /\ [][NextChat]_vars

\* Every await of a request in flight settles: the file system answers, the
\* external tool ends (by exit or by its timeout), the user answers the prompt.
FairChat ==
    /\ WF_vars(\E r \in Reqs, o \in ExecOutcomes : GatewayReply(r, o))
    /\ WF_vars(\E i \in Invs, ok \in BOOLEAN : MkdirTemp(i, ok))
    /\ WF_vars(\E i \in Invs, out \in StageOutcomes : StageFile(i, out))
    /\ WF_vars(\E i \in Invs, o \in ExecOutcomes : ExecuteCommand(i, o))
    /\ WF_vars(\E i \in Invs, ok \in BOOLEAN, rev \in BOOLEAN : FindEditFiles(i, ok, rev))
    /\ WF_vars(\E i \in Invs, action \in Choices : UserChoice(i, action))
    /\ WF_vars(\E i \in Invs, out \in ApplyOutcomes : ApplyEdit(i, out))
    /\ WF_vars(\E i \in Invs, rmOk \in BOOLEAN : CleanupTempDir(i, rmOk))

SpecChatFair == SpecChat /\ FairChat

\* The Context Set is empty, or holds an inactive file before an active one.
InitDispatch ==
    /\ \E s \in {<< >>, << <<<<SLASH, "x", SLASH, "a">>, FALSE>>,
                           <<<<SLASH, "w", SLASH, "a">>, TRUE>> >>} :
          /\ contextFiles = ContextOf(s)
          /\ nextSeq = Len(s)
    /\ pendingAdds = << >>
    /\ docs = [u \in Uris |-> InitDoc(u)]
    /\ notices = << >>
    /\ fired = 0
    /\ lastCall = [op |-> "none", uri |-> << >>]
    /\ fs = EmptyFs
    /\ now = 1
    /\ inv = [i \in Invs |-> OffInv]
    /\ InitConversation

SpecDispatch == InitDispatch /\ [][NextChat]_vars

\* ---- The chat panel (webview script) and the host ----

SendPost(message) == [type |-> "sendMessage", message |-> message]
ClearPost == [type |-> "clearChat", message |-> << >>]

\* a step of the chat panel script: nothing of the host changes
WebStep(op) ==
    /\ lastCall' = [op |-> op, uri |-> << >>]
    /\ fired' = 0
    /\ notices' = << >>
    /\ ModeIdle
    /\ UNCHANGED <<ctxVars, docs, editVars, messages, req>>

\* sendMessage() of the panel: returns at once while waiting or on a blank
\* input; else sets the flag and posts the trimmed text. The user has as many
\* messages to send as there are requests.
WebSendMessage(text) ==
    /\ ~isWaitingForResponse
    /\ Trim(text) # << >>
    /\ Cardinality({n \in DOMAIN toHost : toHost[n].type = "sendMessage"})
          < Cardinality({r \in Reqs : req[r].pc = "idle"})
    /\ isWaitingForResponse' = TRUE
    /\ toHost' = Append(toHost, SendPost(Trim(text)))
    /\ UNCHANGED toWebview
    /\ WebStep("web.sendMessage")

\* clearChat() of the panel
WebClearChat ==
    /\ Len(toHost) + toWebview < MaxPosts
    /\ toHost' = Append(toHost, ClearPost)
    /\ UNCHANGED <<isWaitingForResponse, toWebview>>
    /\ WebStep("web.clearChat")

\* the panel's message listener, case 'updateMessages': the log is drawn
\* again and isWaitingForResponse is set to false
WebUpdateMessages ==
    /\ toWebview > 0
    /\ toWebview' = toWebview - 1
    /\ isWaitingForResponse' = FALSE
    /\ UNCHANGED toHost
    /\ WebStep("web.updateMessages")

\* onDidReceiveMessage, case 'sendMessage': _handleUserMessage(data.message)
\* runs up to its first await
HostSendMessage(r) ==
    /\ toHost # << >>
    /\ Head(toHost).type = "sendMessage"
    /\ r = "r1" \/ req["r1"].pc # "idle"
    /\ HandleUserMessage(r, Head(toHost).message, now)
    /\ toHost' = Tail(toHost)
    /\ UNCHANGED isWaitingForResponse

\* onDidReceiveMessage, case 'clearChat': _clearChat()
HostClearChat ==
    /\ toHost # << >>
    /\ Head(toHost).type = "clearChat"
    /\ messages' = << >>
    /\ updateWebview(1)
    /\ toHost' = Tail(toHost)
    /\ lastCall' = [op |-> "clearChat", uri |-> << >>]
    /\ fired' = 0
    /\ notices' = << >>
    /\ ModeIdle
    /\ UNCHANGED <<ctxVars, docs, editVars, req, isWaitingForResponse>>

NextWeb ==
    \/ \E text \in UserTexts : WebSendMessage(text)
    \/ WebClearChat
    \/ WebUpdateMessages
    \/ \E r \in Reqs : HostSendMessage(r)
    \/ HostClearChat
    \/ \E r \in Reqs, o \in ExecOutcomes : GatewayReply(r, o)

SpecWeb == InitChat /\ [][NextWeb]_vars

\* ---- The mode commands alone, with the trail recording ----

InitMode ==
    /\ contextFiles = << >>
    /\ nextSeq = 0
    /\ pendingAdds = << >>
    /\ docs = [u \in Uris |-> InitDoc(u)]
    /\ notices = << >>
    /\ fired = 0
    /\ lastCall = [op |-> "none", uri |-> << >>]
    /\ fs = EmptyFs
    /\ now = 1
    /\ inv = [i \in Invs |-> OffInv]
    /\ mode = "ask"
    /\ modeEvents = << >>
    /\ modeCall = NoModeCall
    /\ trail = <<[mode |-> "ask", via |-> "init"]>>
    /\ messages = << >>
    /\ req = [r \in Reqs |-> IdleReq]
    /\ isWaitingForResponse = FALSE
    /\ toHost = << >>
    /\ toWebview = 0

NextModeCmd ==
    \/ SwitchMode
    \/ \E sel \in Modes \cup {"undefined"} : SelectModePick(sel)

SpecMode == InitMode /\ [][NextModeCmd]_vars

----------------------------------------------------------------------------

InitCtx ==
    /\ contextFiles = << >>
    /\ nextSeq = 0
    /\ pendingAdds = << >>
    /\ docs = [u \in Uris |-> InitDoc(u)]
    /\ notices = << >>
    /\ fired = 0
    /\ lastCall = [op |-> "none", uri |-> << >>]
    /\ fs = EmptyFs
    /\ now = 1
    /\ inv = [i \in Invs |-> OffInv]
    /\ InitConversation

NextCtx ==
    \/ \E u \in Uris : AddFileCall(u)
    \/ \E k \in 1..MaxPending, readOk \in BOOLEAN : AddFileResume(k, readOk)
    \/ \E u \in Uris : RemoveFile(u)
    \/ \E u \in Uris : ToggleFileActive(u)
    \/ ClearContext

SpecCtx == InitCtx /\ [][NextCtx]_vars

\* ---- The Context Set operated while a processEdit invocation runs ----

\* The context commands stay available at every await of processEdit. The
\* behaviours followed are those of one invocation, from an empty Context Set
\* to the invocation's end; no file is added again while its read is pending,
\* the tool ends in one of two ways, writing a staged file may fail, the user
\* applies or cancels, an edit is applied or rejected.
InitKeep ==
    /\ contextFiles = << >>
    /\ nextSeq = 0
    /\ pendingAdds = << >>
    /\ docs = [u \in Uris |-> InitDoc(u)]
    /\ notices = << >>
    /\ fired = 0
    /\ lastCall = [op |-> "none", uri |-> << >>]
    /\ fs = EmptyFs
    /\ now = 1
    /\ inv = [i \in Invs |-> IF i = "e1" THEN IdleInv ELSE OffInv]
    /\ InitConversation

\* The files the user works with while the invocation runs.
KeepUris == { <<SLASH, "w", SLASH, "a">>, <<SLASH, "x", SLASH, "a">> }

Running == \E i \in Invs : inv[i].pc \notin {"off", "done"}

NextKeep ==
    \/ Running /\ \E u \in KeepUris : u \notin Range(pendingAdds) /\ AddFileCall(u)
    \/ Running /\ \E k \in 1..MaxPending, readOk \in BOOLEAN : AddFileResume(k, readOk)
    \/ Running /\ \E u \in KeepUris : RemoveFile(u)
    \/ Running /\ \E u \in KeepUris : ToggleFileActive(u)
    \/ Running /\ ClearContext
    \/ \E i \in Invs : ProcessEditCall(i, now)
    \/ \E i \in Invs : MkdirTemp(i, TRUE)
    \/ \E i \in Invs, out \in {"ok", "writeFail"} : StageFile(i, out)
    \/ \E i \in Invs, o \in TwoOutcomes : ExecuteCommand(i, o)
    \/ \E i \in Invs : FindEditFiles(i, TRUE, FALSE)
    \/ \E i \in Invs, action \in {"Apply All", "Cancel"} : UserChoice(i, action)
    \/ \E i \in Invs, out \in {"ok", "rejected"} : ApplyEdit(i, out)
    \/ \E i \in Invs : CleanupTempDir(i, TRUE)

SpecKeep == InitKeep /\ [][NextKeep]_vars

----------------------------------------------------------------------------
\* Properties

\* C1: once an Edit invocation that created its staging directory has returned
\* or raised, the staging directory no longer exists.
C1_StagingDirGone ==
    \A i \in Invs :
        (inv[i].pc = "done" /\ inv[i].created) => inv[i].tempDir \notin DOMAIN fs

\* C2: when the only sentinel file found is the one beside the staged copy of a
\* tracked file f and 'Apply All' applied it, f's live document holds exactly the
\* sentinel's text and every other document is as it was when the invocation began.
C2_ApplyAllHitsItsFile ==
    \A i \in Invs : \A n \in DOMAIN inv[i].files :
        LET r == inv[i]
            f == r.files[n]
            staged == pathJoin(r.tempDir, f.relativePath)
            sentinel == staged \o <<SENTINEL>>
        IN  ( /\ r.pc = "cleanup"
              /\ r.choice = "Apply All"
              /\ r.pend.ok
              /\ r.applied # {}
              /\ f.content # << >>
              /\ staged \in DOMAIN fs
              /\ sentinel \in DOMAIN fs
              /\ r.editFiles = <<sentinel>> )
            => /\ docs[f.uri] = fs[sentinel].content
               /\ \A u \in Uris \ {f.uri} : docs[u] = r.docs0[u]

\* C3: no two entries of the Context Set have the same uri.
C3_UniqueUri ==
    \A a, b \in DOMAIN contextFiles :
        a # b => contextFiles[a].uri # contextFiles[b].uri

\* C4: an add call for a uri that is in the Context Set changes neither the set
\* nor the pending reads, shows exactly one "already in context" notice and
\* fires no change notification.
C4_AddPresent ==
    [][ ( /\ lastCall'.op = "addFile"
          /\ \E n \in DOMAIN contextFiles : contextFiles[n].uri = lastCall'.uri )
        => ( /\ contextFiles' = contextFiles
             /\ pendingAdds' = pendingAdds
             /\ Len(notices') = 1
             /\ notices'[1] = <<"File ">> \o basename(lastCall'.uri)
                                \o <<" is already in context">>
             /\ fired' = 0 ) ]_vars

C4_Witness ==
    /\ lastCall.op = "addFile"
    /\ \E n \in DOMAIN contextFiles : contextFiles[n].uri = lastCall.uri
    /\ pendingAdds = << >>
    /\ Len(notices) = 1

\* C5: getContextFiles() holds exactly the entries whose active flag is true,
\* each once, in the order in which they were inserted.
C5_ActiveFiles ==
    LET r == getContextFiles
    IN  /\ \A n \in DOMAIN r : r[n].isActive
        /\ \A n \in DOMAIN contextFiles :
              contextFiles[n].isActive => \E m \in DOMAIN r : r[m] = contextFiles[n]
        /\ Len(r) = Cardinality({n \in DOMAIN contextFiles : contextFiles[n].isActive})
        /\ \A a, b \in DOMAIN r : a < b => r[a].seq < r[b].seq

C5_Witness ==
    /\ lastCall.op = "toggleFileActive"
    /\ Len(contextFiles) = 3
    /\ ~contextFiles[2].isActive
    /\ Len(getContextFiles) = 2

\* C6: getActiveContextContent() is the blocks "// File: <relativePath>\n<content>"
\* of all active files, empty ones included, in insertion order, joined by
\* "\n\n---\n\n".
RECURSIVE C6_Expected(_)
C6_Expected(files) ==
    IF files = << >> THEN << >>
    ELSE LET f == files[Len(files)]
             before == C6_Expected(SubSeq(files, 1, Len(files) - 1))
             block == <<"// File: ">> \o f.relativePath \o <<"\n">> \o f.content
         IN  IF ~f.isActive THEN before
             ELSE IF \E n \in 1..(Len(files) - 1) : files[n].isActive
                  THEN before \o <<"\n\n---\n\n">> \o block
                  ELSE block

C6_BlobHasEveryActiveFile ==
    getActiveContextContent = C6_Expected(contextFiles)

\* C7: with no active file, processEdit fails with the empty-context error and
\* has performed no file system operation and started no process.
C7_EmptyContext ==
    (\A n \in DOMAIN contextFiles : ~contextFiles[n].isActive)
    => \A i \in Invs :
          /\ inv[i].pc \in {"off", "idle", "done"}
          /\ inv[i].pc = "done" =>
                /\ ~inv[i].result.ok
                /\ inv[i].result.text =
                     <<"No files in context for editing. Please add files to context first.">>
                /\ inv[i].fsOps = 0
                /\ inv[i].execs = 0
                /\ inv[i].cleanups = 0
                /\ fs = EmptyFs

C7_Witness ==
    /\ Len(contextFiles) > 0
    /\ \A n \in DOMAIN contextFiles : ~contextFiles[n].isActive
    /\ inv["e1"].pc = "done"
    /\ ~inv["e1"].result.ok

\* C8: the Gateway fails with the stderr text when the tool exits 0 with stderr
\* and no stdout, returns exactly stdout when the tool exits 0 with stdout, and
\* fails with a message that wraps the error text when execution throws.
C8_Classification ==
    \A i \in Invs :
        inv[i].execs > 0 =>
            LET o == inv[i].gw
                res == inv[i].gwRes
            IN  /\ (~o.threw /\ o.stderr # << >> /\ o.stdout = << >>)
                      => (~res.ok /\ EndsWith(res.text, o.stderr))
                /\ (~o.threw /\ o.stdout # << >>)
                      => (res.ok /\ res.text = o.stdout)
                /\ o.threw
                      => ( /\ ~res.ok
                           /\ EndsWith(res.text, o.message)
                           /\ Len(res.text) > Len(o.message) )

C8_Witness ==
    /\ inv["e1"].execs > 0
    /\ ~inv["e1"].gw.threw
    /\ inv["e1"].gw.stderr # << >>
    /\ inv["e1"].gw.stdout = << >>
    /\ ~inv["e1"].gwRes.ok

\* C9: when the Gateway call fails, processEdit fails with the Gateway's error,
\* nothing is discovered, no prompt is shown, no document changes, and cleanup
\* is attempted exactly once.
C9_GatewayFailure ==
    \A i \in Invs :
        (inv[i].execs > 0 /\ ~inv[i].gwRes.ok) =>
            /\ inv[i].pc \in {"cleanup", "done"}
            /\ inv[i].finds = 0
            /\ inv[i].prompts = 0
            /\ docs = inv[i].docs0
            /\ inv[i].pc = "cleanup" => inv[i].cleanups = 0
            /\ inv[i].pc = "done" =>
                  (inv[i].cleanups = 1 /\ inv[i].result = inv[i].gwRes)

C9_Witness ==
    /\ inv["e1"].pc = "done"
    /\ inv["e1"].execs > 0
    /\ ~inv["e1"].gwRes.ok
    /\ inv["e1"].cleanups = 1

\* C10: processEdit settles with what steps 2-4 produced, the text or the error,
\* whether or not deleting the staging directory failed.
C10_CleanupNeverMasks ==
    \A i \in Invs :
        (inv[i].pc = "done" /\ inv[i].cleanups > 0) =>
            /\ inv[i].result = inv[i].pend
            /\ inv[i].result.ok => inv[i].result.text = inv[i].text

C10_Witness ==
    /\ inv["e1"].pc = "done"
    /\ inv["e1"].rmFailed
    /\ inv["e1"].execs > 0
    /\ ~inv["e1"].gwRes.ok
    /\ inv["e1"].result = inv["e1"].gwRes

\* The staged path an edit file stands for: the edit file's path without its
\* trailing sentinel suffix.
UnsuffixedPath(editFile) == SubSeq(editFile, 1, Len(editFile) - 1)

\* The staged paths of the files handed to an invocation.
StagedPaths(r) == { pathJoin(r.tempDir, r.files[n].relativePath) : n \in DOMAIN r.files }

\* C11: under 'Apply All', when applying one matched edit file fails, every
\* other matched edit file's document still receives its sentinel content.
C11_ApplyFailureIsolated ==
    \A i \in Invs :
        LET r == inv[i]
        IN  (r.choice = "Apply All" /\ r.pc \in {"cleanup", "done"} /\ r.failedIdx # {}) =>
                \A m \in DOMAIN r.editFiles :
                    (m \notin r.failedIdx
                       /\ UnsuffixedPath(r.editFiles[m]) \in StagedPaths(r)
                       /\ FindOriginal(r.files, StripSentinel(r.editFiles[m])) # 0)
                    => m \in r.appliedIdx

\* C12: when the answer to the apply prompt is 'Review Each', 'Cancel' or a
\* dismissal, no document is modified.
C12_OtherAnswersTouchNothing ==
    \A i \in Invs :
        inv[i].choice \in (Choices \ {"Apply All"}) =>
            /\ docs = inv[i].docs0
            /\ inv[i].applied = {}
            /\ inv[i].pc \in {"cleanup", "done"}

C12_Witness ==
    /\ inv["e1"].pc = "done"
    /\ inv["e1"].choice = "Review Each"
    /\ \E m \in DOMAIN inv["e1"].editFiles :
          FindOriginal(inv["e1"].files, StripSentinel(inv["e1"].editFiles[m])) # 0

\* C19: an edit file whose un-suffixed staged path is not the staging root
\* joined with the relativePath of a file in the context modifies no document
\* and raises no error, and the remaining edit files are still processed.
C19_UnmatchedSkipped ==
    \A i \in Invs :
        LET r == inv[i]
        IN  \A m \in DOMAIN r.editFiles :
                (r.choice = "Apply All" /\ UnsuffixedPath(r.editFiles[m]) \notin StagedPaths(r)
                   /\ (r.j > m \/ r.pc \in {"cleanup", "done"}))
                => /\ m \notin r.appliedIdx
                   /\ m \notin r.failedIdx

\* C20: a processEdit invocation that raises has modified no document.
C20_RaiseMeansUntouched ==
    \A i \in Invs :
        (inv[i].pc = "done" /\ ~inv[i].result.ok) => docs = inv[i].docs0

\* C13: 'Apply All' never discards what the user typed into a live document
\* after the file's content was read at add time.
C13_UserEditKept ==
    [][ \A u \in Uris :
          (lastCall'.op = "processEdit" /\ UserMark \in Range(docs[u]))
          => UserMark \in Range(docs'[u]) ]_vars

\* C14: no two processEdit invocations use the same staging directory.
C14_OwnStagingDir ==
    \A i, k \in Invs :
        (i # k /\ inv[i].pc \notin {"off", "idle"} /\ inv[k].pc \notin {"off", "idle"}
           /\ Len(inv[i].files) > 0 /\ Len(inv[k].files) > 0)
        => inv[i].tempDir # inv[k].tempDir

\* C15: a mode change while a request is in flight does not touch the request:
\* the handler is the one for the mode read when the message was dispatched,
\* it stays that handler, the assistant message carries that same mode, and a
\* request dispatched later reads the mode anew.
C15_ModeChangeInFlight ==
    [][ \A r \in Reqs :
          /\ (req[r].pc = "idle" /\ req'[r].added # << >>) =>
                /\ req'[r].added[1].mode = mode
                /\ req'[r].handler = HandlerFor(mode)
          /\ (req[r].pc = "await") =>
                /\ req'[r].handler = req[r].handler
                /\ req'[r].added[1] = req[r].added[1]
          /\ (req[r].pc # "done" /\ req'[r].pc = "done" /\ Len(req'[r].added) = 2
                 /\ req'[r].added[2].type = "assistant") =>
                req'[r].added[2].mode = req'[r].added[1].mode ]_vars

C15_Witness ==
    /\ lastCall.op = "processPrompt"
    /\ req["r1"].pc = "done"
    /\ Len(req["r1"].added) = 2
    /\ req["r1"].added[2].type = "assistant"
    /\ req["r1"].added[2].mode = "ask"
    /\ mode # "ask"

\* C16: when the handler of a request fails, the request ends normally having
\* added exactly one message after the user message, a system message whose
\* text is "Error: " followed by the failure's message; a settled processEdit
\* never leaves its request waiting.
C16_FailureRecorded ==
    \A r \in Reqs :
        /\ (req[r].pc = "done" /\ req[r].handler # "none" /\ ~req[r].res.ok) =>
              /\ Len(req[r].added) = 2
              /\ req[r].added[1].type = "user"
              /\ req[r].added[2].type = "system"
              /\ req[r].added[2].content = <<"Error: ">> \o req[r].res.text
        /\ (req[r].pc = "await" /\ req[r].handler = "processEdit") =>
              inv[InvOf(r)].pc \notin {"done", "idle", "off"}

C16_Witness ==
    /\ req["r1"].pc = "done"
    /\ req["r1"].handler = "processEdit"
    /\ inv["e1"].failedIdx # {}
    /\ ~req["r1"].res.ok
    /\ req["r1"].res = inv["e1"].result
    /\ req["r1"].added[2].type = "system"

\* C17: three successive switchMode calls from Ask end in Ask, and from any
\* mode the start and the modes after the first and second call are the three
\* modes, the third call returning to the start.
C17_CycleOfThree ==
    \A k \in 1..(Len(trail) - 3) :
        (\A n \in (k + 1)..(k + 3) : trail[n].via = "switchMode") =>
            /\ trail[k + 3].mode = trail[k].mode
            /\ {trail[k].mode, trail[k + 1].mode, trail[k + 2].mode} = Modes

C17_Witness ==
    /\ Len(trail) = 4
    /\ trail[1] = [mode |-> "ask", via |-> "init"]
    /\ \A n \in 2..4 : trail[n].via = "switchMode"
    /\ mode = "ask"

\* C18: the mode starts as Ask; setMode(m) with m the current mode changes
\* nothing and fires no event; with another m it makes m the current mode and
\* fires one event carrying m.
C18_SetMode ==
    /\ mode = "ask"
    /\ [][ modeCall'.arg \in Modes =>
              IF modeCall'.arg = mode
              THEN /\ modeEvents' = << >>
                   /\ notices' = << >>
                   /\ UNCHANGED <<mode, messages, req, ctxVars, docs, editVars>>
              ELSE /\ mode' = modeCall'.arg
                   /\ modeEvents' = <<modeCall'.arg>> ]_vars

C18_Witness ==
    /\ modeCall = [op |-> "selectMode", arg |-> mode]
    /\ modeEvents = << >>
    /\ Len(trail) >= 2
    /\ trail[Len(trail) - 1].mode = mode

\* C21: when the mkdir or the writeFile of a staged file fails, processEdit
\* ends with that error: the tool is never run, nothing is discovered, and no
\* prompt is shown.
C21_StagingFailureAborts ==
    \A i \in Invs :
        inv[i].result \in {FsError("mkdir"), FsError("writeFile")} =>
            /\ inv[i].pc = "done"
            /\ inv[i].execs = 0
            /\ inv[i].finds = 0
            /\ inv[i].prompts = 0
            /\ docs = inv[i].docs0

C21_Witness ==
    /\ inv["e1"].result = FsError("writeFile")
    /\ inv["e1"].pc = "done"
    /\ inv["e1"].k = 2
    /\ inv["e1"].execs = 0

\* C22: once staging is over, every file handed to processEdit that has
\* content is in the staging directory at tempDir/relativePath with that
\* content, whatever the Context Set, two files of one relativePath included.
C22_StagedVerbatim ==
    \A i \in Invs :
        inv[i].pc = "exec" =>
            \A n \in DOMAIN inv[i].files :
                LET file == inv[i].files[n]
                    filePath == pathJoin(inv[i].tempDir, file.relativePath)
                IN  file.content # << >> =>
                        /\ filePath \in DOMAIN fs
                        /\ fs[filePath] = FileNode(file.content)

\* C23: the original path derived from an edit file is the edit file's path
\* without its trailing sentinel suffix, also when the suffix text occurs
\* earlier in the path.
C23_OnlyTrailingSuffixRemoved ==
    \A i \in Invs :
        \A m \in DOMAIN inv[i].editFiles :
            (inv[i].choice = "Apply All" /\ (inv[i].j > m \/ inv[i].pc \in {"cleanup", "done"})
               /\ m \in 1..inv[i].j)
            => StripSentinel(inv[i].editFiles[m]) = UnsuffixedPath(inv[i].editFiles[m])

\* The sentinel files below dir: the entries that are no directory and whose
\* name ends with the sentinel suffix.
SentinelFilesBelow(fsys, dir) ==
    { p \in DOMAIN fsys : Below(dir, p) /\ fsys[p].type # "dir" /\ p[Len(p)] = SENTINEL }

\* C24: discovery returns exactly the sentinel files below the staging
\* directory, each once, at any depth; a directory named like a sentinel is
\* entered and not returned.
C24_DiscoveryExact ==
    \A i \in Invs :
        /\ inv[i].pc \in {"prompt", "apply"} =>
              /\ Range(inv[i].editFiles) = SentinelFilesBelow(fs, inv[i].tempDir)
              /\ Len(inv[i].editFiles) = Cardinality(Range(inv[i].editFiles))
        /\ (inv[i].pc = "cleanup" /\ inv[i].finds = 1 /\ inv[i].prompts = 0 /\ inv[i].pend.ok) =>
              SentinelFilesBelow(fs, inv[i].tempDir) = {}

C24_Witness ==
    /\ inv["e1"].pc = "prompt"
    /\ \E m \in DOMAIN inv["e1"].editFiles :
          inv["e1"].editFiles[m] =
              pathJoin(inv["e1"].tempDir, <<"d", SENTINEL, SLASH, "a", SENTINEL>>)
    /\ pathJoin(inv["e1"].tempDir, <<"d", SENTINEL, SLASH, "b">>) \in DOMAIN fs
    /\ pathJoin(inv["e1"].tempDir, <<"t", SLASH, "c", SENTINEL>>) \in DOMAIN fs
    /\ Len(inv["e1"].editFiles) >= 3

\* C25: the prompt is shown exactly when discovery found a sentinel file, and
\* it announces as many files as there are sentinel files below the staging
\* directory; when discovery finds none, nothing is asked, no document is
\* modified and the invocation returns the tool's text.
C25_PromptIffFound ==
    /\ (\E k \in DOMAIN notices : notices[k][1] = "Found ")
          => \E i \in Invs : inv[i].pc = "prompt"
    /\ \A i \in Invs :
        LET r == inv[i]
            found == SentinelFilesBelow(fs, r.tempDir)
        IN  /\ r.pc = "prompt" =>
                  /\ found # {}
                  /\ notices = << <<"Found ", ToString(Cardinality(found)),
                                     " edited file(s). Apply changes?">> >>
                  /\ Len(r.editFiles) = Cardinality(found)
            /\ r.prompts = (IF r.finds = 1 /\ r.editFiles # << >> THEN 1 ELSE 0)
            /\ (r.pc = "cleanup" /\ r.finds = 1 /\ r.pend.ok /\ r.prompts = 0) =>
                  /\ found = {}
                  /\ notices = << >>
                  /\ r.pend = Ok(r.gwRes.text)
                  /\ docs = r.docs0
            /\ (r.pc = "done" /\ r.finds = 1 /\ r.result.ok /\ r.prompts = 0) =>
                  /\ r.result = Ok(r.gwRes.text)
                  /\ docs = r.docs0

\* two sentinel files were found and announced
C25_Witness ==
    \E i \in Invs :
        /\ inv[i].pc = "prompt"
        /\ Len(inv[i].editFiles) = 2
        /\ notices = <<FoundPrompt(2)>>

\* discovery ran on a staging directory without sentinel files, and the
\* invocation returned the tool's text
C25_WitnessNone ==
    \E i \in Invs :
        /\ inv[i].pc = "done"
        /\ inv[i].finds = 1
        /\ inv[i].prompts = 0
        /\ inv[i].result.ok

\* position of a step in the order stage, invoke, discover, prompt/apply, cleanup
C26_Rank(pc) ==
    CASE pc \in {"off", "idle"} -> 0
      [] pc \in {"mkdir", "stage"} -> 1
      [] pc = "exec" -> 2
      [] pc = "find" -> 3
      [] pc = "prompt" -> 4
      [] pc = "apply" -> 5
      [] pc = "cleanup" -> 6
      [] pc = "done" -> 7

\* every file of the invocation that has content is written in the staging directory
C26_AllStaged(fsys, r) ==
    \A n \in DOMAIN r.files :
        r.files[n].content # << >> =>
            LET p == pathJoin(r.tempDir, r.files[n].relativePath)
            IN  p \in DOMAIN fsys /\ fsys[p].type = "file"

\* C26: within one Edit invocation the steps happen in the order stage, invoke,
\* discover, prompt/apply, cleanup and never go back; the tool is invoked only
\* when every file with content is written to the staging directory; discovery
\* starts only after the tool has ended; documents are modified only after the
\* user answered; the staging directory is deleted only by cleanup, after the
\* user's answer was received (when a prompt was shown) and the apply loop is over.
C26_StepOrder ==
    [][ /\ docs' # docs =>
              \E i \in Invs : inv[i].choice = "Apply All" /\ inv[i].pc = "apply"
        /\ \A i \in Invs :
          LET r == inv[i]
              q == inv'[i]
          IN  /\ C26_Rank(q.pc) >= C26_Rank(r.pc)
              /\ q.execs > r.execs =>
                    /\ r.pc = "exec"
                    /\ r.k = Len(r.files) + 1
                    /\ C26_AllStaged(fs, r)
              /\ q.finds > r.finds => r.execs = 1 /\ r.gwRes.ok
              /\ q.prompts > r.prompts => q.finds > r.finds
              /\ q.choice # r.choice => r.prompts = 1 /\ r.choice = "none"
              /\ q.cleanups > r.cleanups =>
                    /\ r.pc = "cleanup"
                    /\ r.prompts = 1 => r.choice # "none"
                    /\ (r.choice = "Apply All" /\ r.pend.ok) => r.j = Len(r.editFiles) + 1
              /\ (r.tempDir # << >> /\ r.tempDir \in DOMAIN fs /\ r.tempDir \notin DOMAIN fs')
                    => q.cleanups > r.cleanups
      ]_vars

\* an invocation on two files went through every step, applied edits and cleaned up
C26_Witness ==
    \E i \in Invs :
        /\ inv[i].pc = "done"
        /\ Len(inv[i].files) = 2
        /\ inv[i].execs = 1
        /\ inv[i].finds = 1
        /\ inv[i].choice = "Apply All"
        /\ inv[i].applied # {}
        /\ inv[i].cleanups = 1
        /\ inv[i].tempDir \notin DOMAIN fs

\* the reply entries of request r in the conversation log
C27_Replies(r) ==
    {k \in DOMAIN messages : messages[k].req = r /\ messages[k].type \in {"assistant", "system"}}

\* C27: every non-blank user message eventually has exactly one reply entry in
\* the log, and an Edit invocation that was started eventually runs cleanup,
\* when every file operation settles, the tool ends and the user answers.
C27_ReplyAndCleanup ==
    \A r \in Reqs :
        /\ (req[r].pc = "await") ~> (req[r].pc = "done" /\ Cardinality(C27_Replies(r)) = 1)
        /\ (req[r].pc = "await" /\ req[r].handler = "processEdit")
              ~> (inv[InvOf(r)].cleanups > 0)

\* the part of C27 about the reply alone
C27_ReplyOnly ==
    \A r \in Reqs :
        (req[r].pc = "await") ~> (req[r].pc = "done" /\ Cardinality(C27_Replies(r)) = 1)

\* the mode after m in the order Edit, Agent, Ask, the first following the last
C28_Successor(m) ==
    CASE m = "ask" -> "edit"
      [] m = "edit" -> "agent"
      [] m = "agent" -> "ask"

\* C28: every switchMode call moves Ask to Edit, Edit to Agent and Agent to
\* Ask, and fires exactly one change event, carrying the new mode.
C28_CycleStep ==
    [][ modeCall'.op = "switchMode" =>
            /\ mode' = C28_Successor(mode)
            /\ modeCall'.arg = C28_Successor(mode)
            /\ modeEvents' = <<C28_Successor(mode)>>
            /\ Len(modeEvents') = 1 ]_vars

\* switchMode has just wrapped from Agent to Ask, after Edit to Agent before it
C28_Witness ==
    /\ modeCall.op = "switchMode"
    /\ mode = "ask"
    /\ modeEvents = <<"ask">>
    /\ Len(trail) >= 3
    /\ trail[Len(trail) - 1] = [mode |-> "agent", via |-> "switchMode"]
    /\ trail[Len(trail) - 2].mode = "edit"

\* the handler each mode stands for
C29_Handler(m) ==
    CASE m = "ask" -> "processPrompt"
      [] m = "agent" -> "processAgent"
      [] m = "edit" -> "processEdit"

\* a step that calls the handler of request r: the handler is the one of the
\* mode at that moment, and it is given the active files, in order
C29_Dispatch(r) ==
    (req[r].pc = "idle" /\ req'[r].pc # "idle" /\ Trim(req'[r].text) # << >>) =>
        /\ req'[r].handler = C29_Handler(mode)
        /\ req'[r].files = SelectSeq(contextFiles, LAMBDA f : f.isActive)
        /\ \A n \in DOMAIN req'[r].files : req'[r].files[n].isActive

\* a step that ends the handling of the non-blank request r
C29_Ends(r) == req[r].pc # "done" /\ req'[r].pc = "done" /\ Trim(req'[r].text) # << >>

\* C29 as stated: the handler follows the mode at call time and gets the
\* active files only; a request makes exactly one call of the tool, and none
\* only when Edit fails on an empty list.
C29_OneCallUnlessEmpty ==
    [][ \A r \in Reqs :
          /\ C29_Dispatch(r)
          /\ C29_Ends(r) =>
                req'[r].calls =
                    (IF req'[r].handler = "processEdit" /\ req'[r].files = << >> THEN 0 ELSE 1)
      ]_vars

\* C29, amended: the handler follows the mode at call time and gets the
\* active files only; a request makes at most one call of the tool: exactly
\* one, but none when Edit fails on an empty list or fails while staging.
C29_OneCallUnlessNotStaged ==
    [][ \A r \in Reqs :
          /\ C29_Dispatch(r)
          /\ C29_Ends(r) =>
                req'[r].calls =
                    (IF /\ req'[r].handler = "processEdit"
                        /\ \/ req'[r].files = << >>
                           \/ req'[r].res \in {FsError("mkdir"), FsError("writeFile")}
                     THEN 0 ELSE 1)
      ]_vars

\* an Edit request on the active file alone ended by a staging failure without
\* a call of the tool, after an Ask request that made its one call
C29_Witness ==
    /\ req["r1"].pc = "done"
    /\ req["r1"].handler = "processPrompt"
    /\ req["r1"].calls = 1
    /\ req["r2"].pc = "done"
    /\ req["r2"].handler = "processEdit"
    /\ Len(req["r2"].files) = 1
    /\ Len(contextFiles) = 2
    /\ req["r2"].res = FsError("writeFile")
    /\ req["r2"].calls = 0

\* C30: an entry of the Context Set keeps its uri, name, relativePath and
\* content from the moment it is added until it is removed, whatever happens:
\* toggles, adds and removes of other files, and every step of an Edit
\* invocation, the apply that rewrites the file's document included.
C30_AttributesKept ==
    [][ \A a \in DOMAIN contextFiles : \A b \in DOMAIN contextFiles' :
            contextFiles[a].seq = contextFiles'[b].seq =>
                /\ contextFiles'[b].uri = contextFiles[a].uri
                /\ contextFiles'[b].name = contextFiles[a].name
                /\ contextFiles'[b].relativePath = contextFiles[a].relativePath
                /\ contextFiles'[b].content = contextFiles[a].content ]_vars

\* 'Apply All' has rewritten the document of a tracked file, whose entry
\* still holds the text read when it was added, was toggled since, and has
\* seen another file added after it
C30_Witness ==
    \E a \in DOMAIN contextFiles :
        /\ contextFiles[a].uri \in inv["e1"].applied
        /\ docs[contextFiles[a].uri] = ToolText
        /\ contextFiles[a].content = InitDoc(contextFiles[a].uri)
        /\ contextFiles[a].content # ToolText
        /\ ~contextFiles[a].isActive
        /\ contextFiles[a].seq = 1
        /\ Len(contextFiles) = 2
        /\ inv["e1"].pc = "done"

\* C31: removeFile and toggleFileActive on a uri that is not in the Context
\* Set change nothing, show nothing and fire no change notification; on a uri
\* that is in the set, removeFile takes out one entry of that uri and
\* toggleFileActive flips the active flag of one entry of that uri, every
\* other entry staying as it was and in the same relative order.
C31_RemoveToggleFrame ==
    [][ LET u == lastCall'.uri
            present == \E n \in DOMAIN contextFiles : contextFiles[n].uri = u
        IN  /\ (lastCall'.op \in {"removeFile", "toggleFileActive"} /\ ~present) =>
                  /\ contextFiles' = contextFiles
                  /\ fired' = 0
                  /\ notices' = << >>
            /\ (lastCall'.op = "removeFile" /\ present) =>
                  /\ fired' = 1
                  /\ \E k \in DOMAIN contextFiles :
                        /\ contextFiles[k].uri = u
                        /\ Len(contextFiles') = Len(contextFiles) - 1
                        /\ \A n \in DOMAIN contextFiles' :
                              contextFiles'[n] = contextFiles[IF n < k THEN n ELSE n + 1]
            /\ (lastCall'.op = "toggleFileActive" /\ present) =>
                  /\ fired' = 1
                  /\ \E k \in DOMAIN contextFiles :
                        /\ contextFiles[k].uri = u
                        /\ DOMAIN contextFiles' = DOMAIN contextFiles
                        /\ contextFiles'[k].isActive = ~contextFiles[k].isActive
                        /\ contextFiles'[k].seq = contextFiles[k].seq
                        /\ contextFiles'[k].content = contextFiles[k].content
                        /\ \A n \in DOMAIN contextFiles \ {k} :
                              contextFiles'[n] = contextFiles[n]
            /\ lastCall'.op \in {"removeFile", "toggleFileActive"} =>
                  UNCHANGED <<nextSeq, pendingAdds, docs>>
      ]_vars

\* the second of three entries has just been removed, the first and the third stay
C31_Witness ==
    /\ lastCall.op = "removeFile"
    /\ fired = 1
    /\ Len(contextFiles) = 2
    /\ contextFiles[1].seq = 1
    /\ contextFiles[2].seq = 3
    /\ \A n \in DOMAIN contextFiles : contextFiles[n].uri # lastCall.uri

\* a removeFile for a uri that is not in a Context Set of two entries
C31_WitnessAbsent ==
    /\ lastCall.op = "removeFile"
    /\ fired = 0
    /\ Len(contextFiles) = 2

\* C32: a step of 'Apply All' changes only documents of files that are in
\* the Context Set when the step is taken; the document of a file removed, or
\* cleared away, while the Edit request was in flight is left alone.
C32_ApplyOnlyTracked ==
    [][ \A u \in Uris :
          (lastCall'.op = "processEdit" /\ docs'[u] # docs[u]) =>
              \E n \in DOMAIN contextFiles : contextFiles[n].uri = u ]_vars

\* C33: at most one user request is in flight at a time: no two
\* _handleUserMessage invocations are awaiting their handlers together.
C33_OneInFlight ==
    Cardinality({r \in Reqs : req[r].pc = "await"}) <= 1

\* C34: every assistant or system message in the log has the user message of
\* its request before it in the log, clearChat in flight included.
C34_ReplyAfterItsUserMessage ==
    \A k \in DOMAIN messages :
        messages[k].type \in {"assistant", "system"} =>
            \E j \in 1..(k - 1) :
                messages[j].type = "user" /\ messages[j].req = messages[k].req

\* C35: in every state of the Context Set, the context text the handlers
\* build from getContextFiles() is the text getActiveContextContent() gives.
C35_SameContextText ==
    buildContextContent(getContextFiles) = getActiveContextContent

\* three entries: an active one with text, an active one without, an inactive
\* one with text; the context text is not empty
C35_Witness ==
    /\ Len(contextFiles) = 3
    /\ \E n \in DOMAIN contextFiles :
          contextFiles[n].isActive /\ contextFiles[n].content = << >>
    /\ \E n \in DOMAIN contextFiles :
          ~contextFiles[n].isActive /\ contextFiles[n].content # << >>
    /\ getActiveContextContent # << >>
    /\ Len(getContextFiles) = 2

\* C36: a tool call that succeeds never returns stderr text: it returns stdout
\* when stdout is not empty and 'Command executed successfully' when stdout
\* and stderr are both empty; every failure carries the prefix
\* 'CodeForgeAI CLI error: ', the one for stderr without stdout included.
C36_NeverStderr ==
    \A i \in Invs :
        inv[i].execs > 0 =>
            LET o == inv[i].gw
                res == inv[i].gwRes
            IN  /\ res.ok =>
                      /\ ~o.threw
                      /\ o.stdout # << >> \/ o.stderr = << >>
                      /\ o.stdout # << >> => res.text = o.stdout
                      /\ o.stdout = << >> => res.text = <<"Command executed successfully">>
                      /\ o.stderr # << >> => res.text # o.stderr
                /\ ~res.ok =>
                      /\ res.text # << >>
                      /\ Head(res.text) = "CodeForgeAI CLI error: "
                /\ (~o.threw /\ o.stderr # << >> /\ o.stdout = << >>) =>
                      res = [ok |-> FALSE, text |-> <<"CodeForgeAI CLI error: ">> \o o.stderr]

\* the tool exited 0 with both stdout and stderr, and stdout was returned
C36_Witness ==
    /\ inv["e1"].execs > 0
    /\ ~inv["e1"].gw.threw
    /\ inv["e1"].gw.stdout # << >>
    /\ inv["e1"].gw.stderr # << >>
    /\ inv["e1"].gwRes = [ok |-> TRUE, text |-> inv["e1"].gw.stdout]

\* the last step was an addFile whose read failed
C37_ReadFailed ==
    /\ lastCall.op = "addFile.resume"
    /\ Len(notices) = 1
    /\ notices[1][1] = "Failed to read file: "

\* C37: an addFile whose read fails leaves the Context Set as it was, adds
\* nothing and fires no change notification; an addFile of the same uri right
\* after, the uri not being in the set, is taken as a new file: its read is
\* started and no "already in context" notice is shown.
C37_FailedAddLeavesNoTrace ==
    [][ /\ C37_ReadFailed' =>
              /\ contextFiles' = contextFiles
              /\ nextSeq' = nextSeq
              /\ fired' = 0
              /\ docs' = docs
        /\ ( /\ C37_ReadFailed
              /\ lastCall'.op = "addFile"
              /\ lastCall'.uri = lastCall.uri
              /\ \A n \in DOMAIN contextFiles : contextFiles[n].uri # lastCall.uri ) =>
              /\ pendingAdds' = Append(pendingAdds, lastCall.uri)
              /\ notices' = << >>
              /\ contextFiles' = contextFiles
      ]_vars

\* the read of an addFile has just failed, with one other file in the set
C37_Witness ==
    /\ C37_ReadFailed
    /\ Len(contextFiles) = 1
    /\ contextFiles[1].uri # lastCall.uri
    /\ fired = 0
====
